---------------------------- MODULE Spec2Model ----------------------------
(***************************************************************************)
(* A model of src/shallow_copy.rs: the ShallowCopy trait and its           *)
(* implementations for Arc, Rc, Box, String, Vec, &T, the Copy scalars and *)
(* tuples, together with the caller operations its contract speaks of      *)
(* (drop, mem::forget, reads, writes and appends through a handle).        *)
(*                                                                         *)
(* A handle is the value the caller holds: its kind, the address it points *)
(* at, its own length and capacity, and (for a scalar) its own value.  The *)
(* heap is a set of blocks, each unused, live or freed.  An operation that *)
(* touches a freed block, or releases a block twice, is undefined          *)
(* behaviour: the step is taken with every outcome the build can produce,  *)
(* ub is raised, and the behaviour is followed no further.                 *)
(***************************************************************************)
EXTENDS Integers, Sequences, FiniteSets

VARIABLES
    handles,    \* the handles made so far, by id: the original is 1
    mem,        \* per address: "unused", "live" or "freed"
    data,       \* per address: the block's slots (its length is its size)
    strong,     \* per address: the strong count of an Rc/Arc block
    frees,      \* per address: how many times the block was released
    ub,         \* undefined behaviour has happened
    wlog,       \* the last write through a handle, kept while handles are only
                \* read or forgotten
    init,       \* the carrier the caller started with
    tuples,     \* the tuples made so far: their slots' handle ids
    calls       \* the slot indices of the element calls of the last tuple copy

vars == <<handles, mem, data, strong, frees, ub, wlog, init, tuples, calls>>

\* ------------------------------------------------------------------ bounds

MaxHandles == 3
MaxVal == 1
MaxCap == 2
MaxCount == 2
MaxAddr == 3
MaxTuples == 2
MaxBufHandles == 2

\* The largest tuple arity the crate implements (Tuple12).
MaxArity == 12

Val == 0..MaxVal
Addr == 1..MaxAddr
\* A slot of a buffer beyond every handle's length: never read.
Uninit == MaxVal + 1

BufKinds == {"Vec", "String"}
RcKinds == {"Rc", "Arc"}
\* The kinds whose drop releases storage.
OwningKinds == {"Box", "Rc", "Arc", "Vec", "String"}
Kinds == OwningKinds \cup {"Ref", "Scalar"}

\* ----------------------------------------------------------- shallow_copy

\* The representation of a handle: what shallow_copy reconstructs.
Rep(kind, addr, len, cap, val) ==
    [kind |-> kind, addr |-> addr, len |-> len, cap |-> cap, val |-> val]

RepOf(h) == Rep(h.kind, h.addr, h.len, h.cap, h.val)

\* A heap: the blocks, their slots, their counts, their releases, and whether
\* undefined behaviour has happened.
Heap(m, d, s, f, u) == [mem |-> m, data |-> d, strong |-> s, frees |-> f, ub |-> u]

\* What a shallow_copy call yields: the new handle's representation, and the
\* heap after the call.
Effect(rep, hp) == [rep |-> rep, heap |-> hp]

\* A deep copy of the block at a into a block no allocation has used yet (the
\* same block when there is none): what clone() would do.
DeepCopy(self, hp) ==
    IF self.addr \notin Addr \/ ~(\E a \in Addr : hp.mem[a] = "unused")
       \/ hp.mem[self.addr] # "live"
    THEN Effect(RepOf(self), hp)
    ELSE LET a == CHOOSE x \in Addr : hp.mem[x] = "unused"
         IN  Effect(Rep(self.kind, a, self.len, self.cap, self.val),
                    [hp EXCEPT !.mem[a] = "live", !.data[a] = hp.data[self.addr]])

\* Faulty variant: Arc::clone, which increments the strong count.
ArcClone(self, hp) ==
    Effect(Rep("Arc", self.addr, self.len, self.cap, self.val),
           [hp EXCEPT !.strong[self.addr] = @ + 1])

\* Arc::from_raw(&**self as *const _): the same address, the count untouched.
ArcShallowCopy(self, hp) ==
    Effect(Rep("Arc", self.addr, self.len, self.cap, self.val), hp)

\* Faulty variant: Rc::clone, which increments the strong count.
RcClone(self, hp) ==
    Effect(Rep("Rc", self.addr, self.len, self.cap, self.val),
           [hp EXCEPT !.strong[self.addr] = @ + 1])

\* Rc::from_raw(&**self as *const _): the same address, the count untouched.
RcShallowCopy(self, hp) ==
    Effect(Rep("Rc", self.addr, self.len, self.cap, self.val), hp)

\* Faulty variant: Box::from_raw(&mut *self as *mut _), the address of the handle
\* itself (0: not a heap block) instead of the address of its pointee.
BoxFromHandleAddr(self, hp) ==
    Effect(Rep("Box", 0, self.len, self.cap, self.val), hp)

\* Box::from_raw(&mut **self as *mut _): a second owner of the same address.
BoxShallowCopy(self, hp) ==
    Effect(Rep("Box", self.addr, self.len, self.cap, self.val), hp)

\* Faulty variant: self.clone() of a String.
StringClone(self, hp) == DeepCopy(self, hp)

\* Faulty variant: String::from_raw_parts(buf, cap, cap), the capacity for the length.
StringLenFromCap(self, hp) ==
    Effect(Rep("String", self.addr, self.cap, self.cap, self.val), hp)

\* String::from_raw_parts(buf, len, cap) of self's own buffer, length and
\* capacity.
StringShallowCopy(self, hp) ==
    Effect(Rep("String", self.addr, self.len, self.cap, self.val), hp)

\* Faulty variant: self.clone(), a deep copy into a new block.
VecClone(self, hp) == DeepCopy(self, hp)

\* Vec::from_raw_parts(ptr, len, cap) of self's own pointer, length and
\* capacity.
VecShallowCopy(self, hp) ==
    Effect(Rep("Vec", self.addr, self.len, self.cap, self.val), hp)

\* Faulty variant: Box::from_raw on the referent, which makes an owner of it.
RefAsOwner(self, hp) ==
    Effect(Rep("Box", self.addr, self.len, self.cap, self.val), hp)

\* &*self: a re-borrow of the same address.
RefShallowCopy(self, hp) ==
    Effect(Rep("Ref", self.addr, self.len, self.cap, self.val), hp)

\* Faulty variant: Default::default() instead of *self.
ScalarDefault(self, hp) ==
    Effect(Rep("Scalar", self.addr, self.len, self.cap, 0), hp)

\* *self: the value itself, copied.
ScalarShallowCopy(self, hp) ==
    Effect(Rep("Scalar", self.addr, self.len, self.cap, self.val), hp)

\* The implementation the trait call dispatches to.
shallow_copy(self, hp) ==
    CASE self.kind = "Arc"    -> ArcShallowCopy(self, hp)
      [] self.kind = "Rc"     -> RcShallowCopy(self, hp)
      [] self.kind = "Box"    -> BoxShallowCopy(self, hp)
      [] self.kind = "String" -> StringShallowCopy(self, hp)
      [] self.kind = "Vec"    -> VecShallowCopy(self, hp)
      [] self.kind = "Ref"    -> RefShallowCopy(self, hp)
      [] self.kind = "Scalar" -> ScalarShallowCopy(self, hp)

\* The tuple implementation's element calls from slot i on: each slot's own
\* shallow_copy, on the heap the calls before it left, in the order the tuple
\* expression lists them.  acc holds the slots copied so far, the heap, and the
\* slot indices ($idx, from 0) of the calls made.
RECURSIVE TupleCopyFrom(_, _, _)
TupleCopyFrom(self, i, acc) ==
    IF i > Len(self) THEN acc
    ELSE LET e == shallow_copy(self[i], acc.heap)
         IN  TupleCopyFrom(self, i + 1,
                 [reps |-> Append(acc.reps, e.rep), heap |-> e.heap,
                  calls |-> Append(acc.calls, i - 1)])

\* Faulty variant: a macro that writes self.0 for every $idx.
TupleFirstSlot(self, hp) ==
    [reps |-> [i \in 1..Len(self) |-> shallow_copy(self[1], hp).rep], heap |-> hp,
     calls |-> [i \in 1..Len(self) |-> 0]]

\* ($(self.$idx.shallow_copy(),)+) for a tuple whose slots are self.
TupleShallowCopy(self, hp) ==
    TupleCopyFrom(self, 1, [reps |-> <<>>, heap |-> hp, calls |-> <<>>])

\* ------------------------------------------------------------------ state

\* A handle the caller holds: its representation, whether it is still held
\* ("live"), was dropped or was forgotten, the handle it was copied from (0
\* for the original), the value it was given (a scalar's: the value its source
\* held at the call, or the last value assigned through it; 0 otherwise), and
\* the tuple and slot that hold it (0 for a handle of its own).
Handle(rep, src, own, owner, slot) ==
    [kind |-> rep.kind, addr |-> rep.addr, len |-> rep.len, cap |-> rep.cap,
     val |-> rep.val, st |-> "live", src |-> src, own |-> own,
     owner |-> owner, slot |-> slot]

Ids == DOMAIN handles

\* The lowest address: where the original's storage lives.
BaseAddr == CHOOSE a \in Addr : \A b \in Addr : a <= b

\* Whether a handle's storage can be used: a scalar holds its value itself, any
\* other handle needs its block to be live.
Valid(h) == h.kind = "Scalar" \/ (h.addr \in Addr /\ mem[h.addr] = "live")

\* The content a read through a handle returns, in heap d: the scalar itself,
\* the pointee, or the first len elements of the buffer.
ViewIn(h, d) ==
    IF h.kind = "Scalar" THEN <<h.val>>
    ELSE IF h.addr \in Addr
    THEN [i \in 1..h.len |-> IF i <= Len(d[h.addr]) THEN d[h.addr][i] ELSE Uninit]
    ELSE <<>>

View(h) == ViewIn(h, data)

\* The elements a new buffer of the given length starts with.
InitElem(i, v) == (v + i) % (MaxVal + 1)

NoWrite == [h |-> 0, i |-> 0, v |-> 0, addr |-> 0, before |-> <<>>]

\* The state after the caller has built one carrier of the given kind.
InitCarrier(kind, v, n, len, cap) ==
    LET a == IF kind = "Scalar" THEN 0 ELSE BaseAddr
        rep == Rep(kind, a, len, cap, IF kind = "Scalar" THEN v ELSE 0)
    IN  /\ handles = <<Handle(rep, 0, rep.val, 0, 0)>>
        /\ mem = [x \in Addr |-> IF x = a THEN "live" ELSE "unused"]
        /\ data = [x \in Addr |->
                      IF x # a THEN <<>>
                      ELSE IF kind \in BufKinds
                      THEN [i \in 1..cap |-> IF i <= len THEN InitElem(i, v) ELSE Uninit]
                      ELSE <<v>>]
        /\ strong = [x \in Addr |-> IF x = a /\ kind \in RcKinds THEN n ELSE 0]
        /\ frees = [x \in Addr |-> 0]
        /\ ub = FALSE
        /\ wlog = NoWrite
        /\ init = [kind |-> kind, addr |-> a, len |-> len, cap |-> cap, val |-> v,
                   n |-> n, k |-> 0]
        /\ tuples = <<>>
        /\ calls = <<>>

Init ==
    \E kind \in Kinds, v \in Val, n \in 1..MaxCount, cap \in 1..MaxCap :
      \E len \in 0..cap :
        /\ kind \notin RcKinds => n = 1
        /\ kind \notin BufKinds => (cap = 1 /\ len = 1)
        /\ InitCarrier(kind, v, n, len, cap)

\* ---------------------------------------------------------------- actions

\* let d = h.shallow_copy(): a new handle with the representation the
\* implementation returns, and the heap the implementation leaves.
ShallowCopy(h) ==
    /\ ~ub
    /\ Len(handles) < MaxHandles
    /\ handles[h].st = "live"
    /\ handles[h].owner = 0
    /\ LET e == shallow_copy(handles[h], Heap(mem, data, strong, frees, ub))
       IN  /\ handles' = Append(handles, Handle(e.rep, h, handles[h].val, 0, 0))
           /\ mem' = e.heap.mem
           /\ data' = e.heap.data
           /\ strong' = e.heap.strong
           /\ frees' = e.heap.frees
           /\ ub' = e.heap.ub
    /\ wlog' = NoWrite
    /\ UNCHANGED <<init, tuples, calls>>

\* What is left of a handle once it was dropped or forgotten: the value was
\* moved out of the caller's binding, only its fate and its kind are kept.
Gone(h, fate) ==
    [kind |-> h.kind, addr |-> 0, len |-> 0, cap |-> 0, val |-> 0, st |-> fate,
     src |-> h.src, own |-> 0,
     owner |-> h.owner, slot |-> h.slot]

\* The heap hp with the block at a released: its slots are gone.
Release(hp, a, u) ==
    Heap([hp.mem EXCEPT ![a] = "freed"], [hp.data EXCEPT ![a] = <<>>],
         [hp.strong EXCEPT ![a] = 0], [hp.frees EXCEPT ![a] = @ + 1], u)

\* What the drop glue of one handle does to heap hp.  A Scalar or a &T has
\* none.  An Rc/Arc decrements the count and releases the block when the
\* count reaches zero; when the block was already released the count it reads
\* is arbitrary, so it may (again) or may not release the block once more.  A
\* Box, Vec or String releases its block: a second release of the same block,
\* or a release with a capacity that is not the block's, is undefined
\* behaviour.
DropHeap(h, hp, again) ==
    IF h.kind \in {"Scalar", "Ref"} \/ h.addr \notin Addr
    THEN hp
    ELSE IF h.kind \in RcKinds
    THEN IF hp.mem[h.addr] = "live"
         THEN IF hp.strong[h.addr] = 1
              THEN Release(hp, h.addr, hp.ub)
              ELSE [hp EXCEPT !.strong[h.addr] = @ - 1]
         ELSE IF again THEN Release(hp, h.addr, TRUE) ELSE [hp EXCEPT !.ub = TRUE]
    ELSE IF hp.mem[h.addr] = "live" /\ h.cap = Len(hp.data[h.addr])
    THEN Release(hp, h.addr, hp.ub)
    ELSE Release(hp, h.addr, TRUE)

\* drop(h): the handle's normal destruction.
Drop(h) ==
    /\ ~ub
    /\ handles[h].st = "live"
    /\ handles[h].owner = 0
    /\ \E again \in BOOLEAN :
         LET r == DropHeap(handles[h], Heap(mem, data, strong, frees, ub), again)
         IN  /\ mem' = r.mem
             /\ data' = r.data
             /\ strong' = r.strong
             /\ frees' = r.frees
             /\ ub' = r.ub
    /\ handles' = [handles EXCEPT ![h] = Gone(@, "dropped")]
    /\ wlog' = NoWrite
    /\ UNCHANGED <<init, tuples, calls>>

\* mem::forget(h): the handle goes away and its destruction is skipped.
Forget(h) ==
    /\ ~ub
    /\ handles[h].st = "live"
    /\ handles[h].owner = 0
    /\ handles' = [handles EXCEPT ![h] = Gone(@, "forgotten")]
    /\ UNCHANGED <<mem, data, strong, frees, ub, wlog, init, tuples, calls>>

\* A read through a handle returns View(h) and changes nothing; a read of a
\* released block is undefined behaviour.
Read(h) ==
    /\ ~ub
    /\ handles[h].st = "live"
    /\ handles[h].owner = 0
    /\ ub' = ~Valid(handles[h])
    /\ UNCHANGED <<handles, mem, data, strong, frees, wlog, init, tuples, calls>>

\* h = v on a scalar: the handle's own value is overwritten.
Assign(h, v) ==
    /\ ~ub
    /\ handles[h].st = "live"
    /\ handles[h].owner = 0
    /\ handles[h].kind = "Scalar"
    /\ handles' = [handles EXCEPT ![h].val = v, ![h].own = v]
    /\ wlog' = NoWrite
    /\ UNCHANGED <<mem, data, strong, frees, ub, init, tuples, calls>>

\* h[i] = v on a buffer: slot i of the block the handle points at is
\* overwritten in place.
Write(h, i, v) ==
    /\ ~ub
    /\ handles[h].st = "live"
    /\ handles[h].kind \in BufKinds
    /\ i \in 1..handles[h].len
    /\ IF Valid(handles[h])
       THEN /\ data' = [data EXCEPT ![handles[h].addr][i] = v]
            /\ wlog' = [h |-> h, i |-> i, v |-> v, addr |-> handles[h].addr,
                        before |-> data[handles[h].addr]]
            /\ ub' = ub
       ELSE /\ ub' = TRUE
            /\ UNCHANGED <<data, wlog>>
    /\ UNCHANGED <<handles, mem, strong, frees, init, tuples, calls>>

\* h.push(v) with room left: the element is written at the handle's own length,
\* and the handle's own length grows.
PushInPlace(h, v) ==
    /\ ~ub
    /\ handles[h].st = "live"
    /\ handles[h].kind \in BufKinds
    /\ handles[h].len < handles[h].cap
    /\ IF Valid(handles[h])
       THEN /\ data' = [data EXCEPT ![handles[h].addr][handles[h].len + 1] = v]
            /\ handles' = [handles EXCEPT ![h].len = @ + 1]
            /\ ub' = ub
       ELSE /\ ub' = TRUE
            /\ UNCHANGED <<handles, data>>
    /\ wlog' = NoWrite
    /\ UNCHANGED <<mem, strong, frees, init, tuples, calls>>

\* The slots of a block regrown to capacity c, with v appended at length len.
Regrown(old, len, c, v) ==
    [i \in 1..c |-> IF i <= len /\ i <= Len(old) THEN old[i]
                    ELSE IF i = len + 1 THEN v ELSE Uninit]

\* h.push(v) with the buffer full: the block is reallocated to a larger
\* capacity, either where it is or at a new address (the old block is then
\* released), and only the pushing handle learns of it.
PushGrow(h, v) ==
    /\ ~ub
    /\ handles[h].st = "live"
    /\ handles[h].kind \in BufKinds
    /\ handles[h].len = handles[h].cap
    /\ handles[h].len < MaxCap
    /\ LET s == handles[h] IN
       IF Valid(s) /\ s.cap = Len(data[s.addr])
       THEN \E c \in (s.len + 1)..MaxCap :
              \/ /\ data' = [data EXCEPT ![s.addr] = Regrown(@, s.len, c, v)]
                 /\ handles' = [handles EXCEPT ![h].len = @ + 1, ![h].cap = c]
                 /\ UNCHANGED <<mem, frees, ub>>
              \/ \E a \in Addr :
                   /\ mem[a] = "unused"
                   /\ mem' = [mem EXCEPT ![s.addr] = "freed", ![a] = "live"]
                   /\ frees' = [frees EXCEPT ![s.addr] = @ + 1]
                   /\ data' = [data EXCEPT ![a] = Regrown(data[s.addr], s.len, c, v),
                                           ![s.addr] = <<>>]
                   /\ handles' = [handles EXCEPT ![h].len = @ + 1, ![h].cap = c,
                                                 ![h].addr = a]
                   /\ ub' = ub
       ELSE /\ ub' = TRUE
            /\ UNCHANGED <<handles, mem, data, frees>>
    /\ wlog' = NoWrite
    /\ UNCHANGED <<strong, init, tuples, calls>>

\* A caller that keeps to what the contract allows of the storage: copies,
\* drops, forgets and reads, and assignments to its scalars.
Next ==
    \/ \E h \in Ids : ShallowCopy(h)
    \/ \E h \in Ids : Drop(h)
    \/ \E h \in Ids : Forget(h)
    \/ \E h \in Ids : Read(h)
    \/ \E h \in Ids, v \in Val : Assign(h, v)

Spec == Init /\ [][Next]_vars

\* The caller starts with one buffer.
InitBuf ==
    \E kind \in BufKinds, v \in Val, cap \in 1..MaxCap :
      \E len \in 0..cap : InitCarrier(kind, v, 1, len, cap)

\* A caller that overwrites elements of its buffers in place.
NextWrite ==
    \/ \E h \in Ids : Len(handles) < MaxBufHandles /\ ShallowCopy(h)
    \/ \E h \in Ids : Drop(h)
    \/ \E h \in Ids : Forget(h)
    \/ \E h \in Ids : Read(h)
    \/ \E h \in Ids, i \in 1..MaxCap, v \in Val : Write(h, i, v)

SpecWrite == InitBuf /\ [][NextWrite]_vars

\* A caller that appends to its buffers, past their capacity too; what it
\* appends is the value its buffer was built from.
NextGrow ==
    \/ \E h \in Ids : Len(handles) < MaxBufHandles /\ ShallowCopy(h)
    \/ \E h \in Ids : Drop(h)
    \/ \E h \in Ids : Forget(h)
    \/ \E h \in Ids : Read(h)
    \/ \E h \in Ids : PushInPlace(h, init.val)
    \/ \E h \in Ids : PushGrow(h, init.val)

SpecGrow == InitBuf /\ [][NextGrow]_vars

\* ------------------------------------------------------------------ tuples

\* The handles in the slots of tuple t, in slot order.
Slots(t) == [i \in 1..Len(tuples[t].elems) |-> handles[tuples[t].elems[i]]]

\* The caller starts with one tuple of arity n: scalars, and at slot k (the
\* first or the last, or none when k is 0) a reference-counted pointer with
\* count cnt, an Rc at the odd slots and an Arc at the even ones.
InitTuple ==
    \E n \in 1..MaxArity, k \in 0..MaxArity, cnt \in 1..MaxCount :
      LET kind == IF k % 2 = 1 THEN "Rc" ELSE "Arc" IN
        /\ k \in {0, 1, n}
        /\ k = 0 => cnt = 1
        /\ handles = [i \in 1..n |->
                        IF i = k
                        THEN Handle(Rep(kind, BaseAddr, 1, 1, 0), 0, 0, 1, i - 1)
                        ELSE Handle(Rep("Scalar", 0, 1, 1, InitElem(i, 0)), 0,
                                    InitElem(i, 0), 1, i - 1)]
        /\ tuples = <<[elems |-> [i \in 1..n |-> i], st |-> "live", src |-> 0]>>
        /\ mem = [x \in Addr |-> IF x = BaseAddr /\ k # 0 THEN "live" ELSE "unused"]
        /\ data = [x \in Addr |-> IF x = BaseAddr /\ k # 0 THEN <<InitElem(k, 0)>> ELSE <<>>]
        /\ strong = [x \in Addr |-> IF x = BaseAddr /\ k # 0 THEN cnt ELSE 0]
        /\ frees = [x \in Addr |-> 0]
        /\ ub = FALSE
        /\ wlog = NoWrite
        /\ init = [kind |-> "Tuple", addr |-> IF k = 0 THEN 0 ELSE BaseAddr, len |-> n,
                   cap |-> n, val |-> InitElem(k, 0), n |-> cnt, k |-> k]
        /\ calls = <<>>

\* let d = t.shallow_copy() on a tuple: the element calls in order, and a new
\* tuple of the handles they return.
TupleCopy(t) ==
    /\ ~ub
    /\ Len(tuples) < MaxTuples
    /\ tuples[t].st = "live"
    /\ Len(tuples[t].elems) \in 1..MaxArity
    /\ LET r == TupleShallowCopy(Slots(t), Heap(mem, data, strong, frees, ub))
           n == Len(tuples[t].elems)
           base == Len(handles)
       IN  /\ handles' = handles \o
                  [i \in 1..n |-> Handle(r.reps[i], tuples[t].elems[i],
                                         Slots(t)[i].val, Len(tuples) + 1, i - 1)]
           /\ tuples' = Append(tuples, [elems |-> [i \in 1..n |-> base + i],
                                        st |-> "live", src |-> t])
           /\ calls' = r.calls
           /\ mem' = r.heap.mem
           /\ data' = r.heap.data
           /\ strong' = r.heap.strong
           /\ frees' = r.heap.frees
           /\ ub' = r.heap.ub
    /\ UNCHANGED <<wlog, init>>

\* The drop glue of a tuple from slot i on: the slots' drops in slot order.
RECURSIVE DropSlotsFrom(_, _, _, _)
DropSlotsFrom(slots, i, hp, again) ==
    IF i > Len(slots) THEN hp
    ELSE DropSlotsFrom(slots, i + 1, DropHeap(slots[i], hp, again), again)

\* drop(t) on a tuple.
TupleDrop(t) ==
    /\ ~ub
    /\ tuples[t].st = "live"
    /\ \E again \in IF \E i \in DOMAIN Slots(t) : ~Valid(Slots(t)[i])
                    THEN BOOLEAN ELSE {FALSE} :
         LET r == DropSlotsFrom(Slots(t), 1, Heap(mem, data, strong, frees, ub), again)
         IN  /\ mem' = r.mem
             /\ data' = r.data
             /\ strong' = r.strong
             /\ frees' = r.frees
             /\ ub' = r.ub
    /\ handles' = [h \in Ids |-> IF handles[h].owner = t
                                 THEN Gone(handles[h], "dropped") ELSE handles[h]]
    /\ tuples' = [tuples EXCEPT ![t].st = "dropped"]
    /\ UNCHANGED <<wlog, init, calls>>

\* mem::forget(t) on a tuple.
TupleForget(t) ==
    /\ ~ub
    /\ tuples[t].st = "live"
    /\ handles' = [h \in Ids |-> IF handles[h].owner = t
                                 THEN Gone(handles[h], "forgotten") ELSE handles[h]]
    /\ tuples' = [tuples EXCEPT ![t].st = "forgotten"]
    /\ UNCHANGED <<mem, data, strong, frees, ub, wlog, init, calls>>

\* The slot of tuple t the caller assigns to: its last scalar slot.
AssignedSlots(t) ==
    LET sc == {i \in DOMAIN Slots(t) : Slots(t)[i].kind = "Scalar"}
    IN  {i \in sc : \A j \in sc : i >= j}

\* t.i = v on a scalar slot of a tuple.
TupleAssign(t, i, v) ==
    /\ ~ub
    /\ tuples[t].st = "live"
    /\ i \in AssignedSlots(t)
    /\ handles' = [handles EXCEPT ![tuples[t].elems[i]].val = v,
                                  ![tuples[t].elems[i]].own = v]
    /\ UNCHANGED <<mem, data, strong, frees, ub, wlog, init, tuples, calls>>

NextTuple ==
    \/ \E t \in DOMAIN tuples : TupleCopy(t)
    \/ \E t \in DOMAIN tuples : TupleDrop(t)
    \/ \E t \in DOMAIN tuples : TupleForget(t)
    \/ \E t \in DOMAIN tuples, i \in 1..MaxArity, v \in Val : TupleAssign(t, i, v)

SpecTuple == InitTuple /\ [][NextTuple]_vars

\* ------------------------------------------------------------------ claims

\* C1: for an owning carrier (Box, Vec, String, or an Rc/Arc holding the last
\* reference), however many shallow copies were made of the original or of its
\* duplicates, as long as at most one handle was dropped and the others are
\* forgotten or still held, the storage was released exactly as many times as
\* handles were dropped: not at all before the drop, once after it, and never
\* twice; and no other block was released.
C1_ReleasedExactlyOnce ==
    LET dropped == {h \in Ids : handles[h].st = "dropped"}
    IN  (/\ init.kind \in OwningKinds
         /\ init.kind \in RcKinds => init.n = 1
         /\ Cardinality(dropped) <= 1)
        => \A a \in Addr :
             frees[a] = IF a = BaseAddr THEN Cardinality(dropped) ELSE 0

\* C1's case: an owning carrier, a duplicate of it and a duplicate of that
\* duplicate; one of the three was dropped and the other two forgotten.
C1_Witness ==
    /\ init.kind \in OwningKinds
    /\ init.kind \in RcKinds => init.n = 1
    /\ Len(handles) >= 3
    /\ handles[3].src = 2
    /\ Cardinality({h \in Ids : handles[h].st = "dropped"}) = 1
    /\ \A h \in Ids : handles[h].st \in {"dropped", "forgotten"}
    /\ frees[BaseAddr] = 1

\* C2: for Rc and Arc with any starting count n, as long as no handle was
\* dropped (duplicates alive or forgotten), the strong count is n, the block is
\* live, and every handle still held reads the original value.
C2_CountUnchanged ==
    (init.kind \in RcKinds /\ \A h \in Ids : handles[h].st # "dropped")
    => /\ strong[BaseAddr] = init.n
       /\ mem[BaseAddr] = "live"
       /\ \A h \in Ids : handles[h].st = "live" => View(handles[h]) = <<init.val>>

\* C2's case: a count above one, a duplicate made of the original and then
\* forgotten, the original still held.
C2_Witness ==
    /\ init.kind \in RcKinds
    /\ init.n > 1
    /\ handles[1].st = "live"
    /\ \E d \in Ids : handles[d].src = 1 /\ handles[d].st = "forgotten"
    /\ strong[BaseAddr] = init.n

\* C3: a shallow_copy step, for every carrier kind, adds a handle with the
\* representation its source has at the call (kind, address, length, capacity,
\* value), allocates and releases nothing, changes no block and no count, and
\* a read through the new handle returns what a read through the source does.
C3_SameRepresentation ==
    [][Len(handles') = Len(handles) + 1
       => LET d == handles'[Len(handles')]
              s == handles[d.src]
          IN  /\ RepOf(d) = RepOf(s)
              /\ mem' = mem /\ data' = data /\ strong' = strong /\ frees' = frees
              /\ Valid(s) => ViewIn(d, data') = ViewIn(s, data)]_vars

\* C3's case: a String with room left (length below capacity), its duplicate,
\* both held and reading the same non-empty content.
C3_Witness ==
    \E d \in Ids :
        /\ handles[d].src = 1
        /\ handles[d].kind = "String"
        /\ handles[d].st = "live" /\ handles[1].st = "live"
        /\ handles[d].len < handles[d].cap
        /\ handles[d].len > 0
        /\ View(handles[d]) = View(handles[1])

\* C4: once a write of v at index i was made through a buffer handle and that
\* handle was forgotten, every handle still held to a live block reads v at
\* index i and, at every other index, the value the block held before the
\* write.
C4_WriteVisible ==
    (wlog.h # 0 /\ handles[wlog.h].st = "forgotten")
    => \A g \in Ids :
         (handles[g].st = "live" /\ Valid(handles[g]))
         => \A j \in 1..handles[g].len :
              View(handles[g])[j] = IF j = wlog.i THEN wlog.v ELSE wlog.before[j]

\* C4's case: a buffer of two elements, a write through the duplicate that
\* changes an element, the duplicate forgotten, the original still held.
C4_Witness ==
    /\ wlog.h # 0
    /\ handles[wlog.h].src = 1
    /\ handles[wlog.h].st = "forgotten"
    /\ handles[1].st = "live" /\ handles[1].len = 2
    /\ wlog.v # wlog.before[wlog.i]

\* C5: for a scalar, every handle still held holds the value it was given (the
\* value its source held at the call, or what was assigned through the handle
\* itself since), whatever was assigned to or dropped of the other handles; and
\* no storage is ever released, so dropping all of them releases nothing twice.
C5_ScalarIndependent ==
    init.kind = "Scalar"
    => /\ \A h \in Ids : handles[h].st = "live" => handles[h].val = handles[h].own
       /\ \A a \in Addr : frees[a] = 0 /\ mem[a] = "unused"
       /\ ~ub

\* C5's case: the first duplicate still holds the initial value although the
\* original was overwritten since (a later duplicate of it holds another
\* value) and then dropped.
C5_Witness ==
    /\ init.kind = "Scalar"
    /\ Len(handles) >= 3
    /\ handles[1].st = "dropped"
    /\ handles[2].src = 1 /\ handles[2].st = "live" /\ handles[2].val = init.val
    /\ handles[3].src = 1 /\ handles[3].st = "live" /\ handles[3].val # init.val

\* C6: a tuple shallow_copy step, for every arity from 1 to 12, makes its
\* element calls in slot order 0, 1, ..., n-1, and slot i of the new tuple has
\* the representation slot i of the source has at the call, with no block and
\* no count changed; and after every step each scalar slot still held holds the
\* value it was given, whatever was assigned to the same slot of another
\* tuple, while the count of the reference-counted slot is the initial one as
\* long as no tuple was dropped.
C6_TupleElementwise ==
    [][/\ Len(tuples') = Len(tuples) + 1
          => LET d == tuples'[Len(tuples')]
                 s == tuples[d.src]
                 n == Len(s.elems)
             IN  /\ n = init.len /\ Len(d.elems) = n
                 /\ calls' = [i \in 1..n |-> i - 1]
                 /\ \A i \in 1..n :
                      /\ RepOf(handles'[d.elems[i]]) = RepOf(handles[s.elems[i]])
                      /\ handles'[d.elems[i]].slot = i - 1
                 /\ mem' = mem /\ data' = data /\ strong' = strong /\ frees' = frees
       /\ \A h \in DOMAIN handles' :
            (handles'[h].st = "live" /\ handles'[h].kind = "Scalar")
            => handles'[h].val = handles'[h].own
       /\ (init.k # 0 /\ \A t \in DOMAIN tuples' : tuples'[t].st # "dropped")
          => /\ strong'[BaseAddr] = init.n
             /\ \A t \in DOMAIN tuples' :
                  tuples'[t].st = "live"
                  => /\ handles'[tuples'[t].elems[init.k]].kind \in RcKinds
                     /\ handles'[tuples'[t].elems[init.k]].addr = BaseAddr]_vars

\* C6's case: a tuple of the largest arity with scalars and, in its last slot,
\* a reference-counted pointer with a count above one; its duplicate; and a
\* scalar slot of the original overwritten after the copy, so that the two
\* tuples differ there.
C6_Witness ==
    /\ init.kind = "Tuple"
    /\ init.len = MaxArity /\ init.k = MaxArity /\ init.n > 1
    /\ Len(tuples) >= 2
    /\ tuples[1].st = "live" /\ tuples[2].st = "live" /\ tuples[2].src = 1
    /\ calls = [i \in 1..MaxArity |-> i - 1]
    /\ \E i \in 1..MaxArity :
         /\ handles[tuples[1].elems[i]].kind = "Scalar"
         /\ handles[tuples[1].elems[i]].val # handles[tuples[2].elems[i]].val
    /\ handles[tuples[2].elems[MaxArity]].addr = BaseAddr
    /\ strong[BaseAddr] = init.n

\* C7: as long as no handle was dropped, whatever copies, reads and forgets
\* were made, no undefined behaviour has happened and every handle still held
\* refers to a block that is live.
C7_ValidUntilDrop ==
    (\A h \in Ids : handles[h].st # "dropped")
    => /\ ~ub
       /\ \A h \in Ids : handles[h].st = "live" => Valid(handles[h])

\* C7's case: a Box, a duplicate and a duplicate of the duplicate; one was
\* forgotten, none dropped, and two are still held.
C7_Witness ==
    /\ init.kind = "Box"
    /\ Len(handles) >= 3
    /\ handles[3].src = 2
    /\ handles[2].st = "forgotten"
    /\ handles[1].st = "live" /\ handles[3].st = "live"

\* C8: for a borrowed reference, whatever handles were dropped or forgotten,
\* the referent is live, was never released, holds its initial content, and no
\* undefined behaviour has happened.
C8_RefAlwaysSafe ==
    init.kind = "Ref"
    => /\ mem[BaseAddr] = "live"
       /\ \A a \in Addr : frees[a] = 0
       /\ data[BaseAddr] = <<init.val>>
       /\ ~ub

\* C8's case: the reference and two duplicates of it, all three dropped
\* normally.
C8_Witness ==
    /\ init.kind = "Ref"
    /\ Len(handles) >= 3
    /\ \A h \in Ids : handles[h].st = "dropped"

\* C9 as stated: on an owning carrier, when the original and a duplicate were
\* both dropped the storage was released twice, and when every handle was
\* forgotten it was never released.
C9_AsStated ==
    (init.kind \in OwningKinds /\ (init.kind \in RcKinds => init.n = 1))
    => /\ (handles[1].st = "dropped"
           /\ \E d \in Ids : d # 1 /\ handles[d].st = "dropped")
          => frees[BaseAddr] = 2
       /\ (\A h \in Ids : handles[h].st = "forgotten")
          => (frees[BaseAddr] = 0 /\ mem[BaseAddr] = "live")

\* C9, amended: on an owning carrier, when the original and a duplicate were
\* both dropped, undefined behaviour has happened on storage the first drop
\* released: a Box, Vec or String was released twice; an Rc or Arc holding the
\* last reference was released by the first drop and the second drop
\* decremented a count in released storage, releasing it once more or not.
\* When every handle was forgotten the storage is live and was never released.
C9_DoubleDropOrLeak ==
    (init.kind \in OwningKinds /\ (init.kind \in RcKinds => init.n = 1))
    => /\ (handles[1].st = "dropped"
           /\ \E d \in Ids : d # 1 /\ handles[d].st = "dropped")
          => /\ ub
             /\ mem[BaseAddr] = "freed"
             /\ IF init.kind \in RcKinds
                THEN frees[BaseAddr] \in {1, 2}
                ELSE frees[BaseAddr] = 2
       /\ (\A h \in Ids : handles[h].st = "forgotten")
          => (frees[BaseAddr] = 0 /\ mem[BaseAddr] = "live")

\* C9's case: an Arc holding the last reference whose original and duplicate
\* were both dropped, the second drop having released nothing.
C9_Witness ==
    /\ init.kind = "Arc" /\ init.n = 1
    /\ Len(handles) >= 2
    /\ handles[1].st = "dropped" /\ handles[2].st = "dropped"
    /\ ub
    /\ frees[BaseAddr] = 1

\* C10: length, capacity and address belong to each buffer handle.  A
\* shallow_copy step gives the new handle those its source has at the call.
\* An append through one handle changes no other handle: the others keep their
\* length, capacity and address; and when the append moved the storage, the
\* old block is released and every other handle still held keeps an address
\* that denotes released storage.
C10_PerHandleTriple ==
    [][/\ Len(handles') = Len(handles) + 1
          => RepOf(handles'[Len(handles')]) = RepOf(handles[handles'[Len(handles')].src])
       /\ \A h \in Ids :
            (/\ Len(handles') = Len(handles)
             /\ handles[h].st = "live" /\ handles'[h].st = "live"
             /\ handles'[h].len = handles[h].len + 1)
            => /\ \A g \in Ids \ {h} : handles'[g] = handles[g]
               /\ handles'[h].addr # handles[h].addr
                  => /\ mem'[handles[h].addr] = "freed"
                     /\ frees'[handles[h].addr] = frees[handles[h].addr] + 1
                     /\ mem'[handles'[h].addr] = "live"
                     /\ \A g \in Ids \ {h} :
                          handles[g].st = "live"
                          => mem'[handles'[g].addr] = "freed"]_vars

\* C10's case: a buffer that was full, its duplicate appended to past the
\* capacity and moved, the original still held with the old length and the old
\* address, whose block is released.
C10_Witness ==
    /\ Len(handles) >= 2
    /\ handles[1].st = "live" /\ handles[2].st = "live"
    /\ handles[2].src = 1
    /\ handles[1].addr = BaseAddr /\ handles[2].addr # BaseAddr
    /\ handles[1].len = init.len /\ handles[2].len = init.len + 1
    /\ mem[BaseAddr] = "freed" /\ mem[handles[2].addr] = "live"

=============================================================================
